---- MODULE Spec2Model ----
(***************************************************************************)
(* A model of parsers/parser.py of python-docblockr: the comma splitter,   *)
(* the buffer walker, the definition locator, the block extractor, the     *)
(* field parsers and the closing detector.                                 *)
(*                                                                         *)
(* Strings are sequences of one-character strings; a text buffer is its    *)
(* text with the tab size of its settings, an offset pt of the buffer      *)
(* stands before the character text[pt + 1], and a region is the pair of   *)
(* its begin and end offsets.                                              *)
(***************************************************************************)
EXTENDS Integers, Sequences, FiniteSets, TLC

VARIABLES
    op,              \* the operation performed last ("init" before any)
    string, out,     \* split_by_commas: its argument and its return value
    line, contents,  \* parse and the field parsers: their arguments
    output,          \* parse, the field parsers, is_docstring_closed: the outcome
    view, position,  \* the text buffer and the position handed to a buffer operation
    closing_string,  \* PythonParser.closing_string
    ret,             \* what the last buffer operation returned
    multiline,       \* the multiline argument of get_definition_contents
    docstring_type,  \* read_above: the type it returned
    above,           \* read_above: the definition text it returned
    walk             \* one run of the generator read_next_line, step by step

vars ==
    <<op, string, out, line, contents, output, view, position, closing_string, ret,
      multiline, docstring_type, above, walk>>

----------------------------------------------------------------------------
(* Bounds of the model *)

MaxStringLen == 5

MaxContentLines == 2

MaxLines == 3

----------------------------------------------------------------------------
(* Characters and the string helpers of Python used by the code *)

\* Python's None, as a value that is no string of characters
None == <<"<None>">>

Range(s) == {s[i] : i \in 1..Len(s)}

Min(S) == CHOOSE x \in S : \A y \in S : x <= y

Max(S) == CHOOSE x \in S : \A y \in S : x >= y

\* the characters str.strip() removes and the regular expression \s matches
WhiteSpace == {" ", "\t", "\n", "\r", "\f"}

IsSpace(c) == c \in WhiteSpace

RECURSIVE LStrip(_)
LStrip(s) == IF s # <<>> /\ IsSpace(Head(s)) THEN LStrip(Tail(s)) ELSE s

RECURSIVE RStrip(_)
RStrip(s) ==
    IF s # <<>> /\ IsSpace(s[Len(s)]) THEN RStrip(SubSeq(s, 1, Len(s) - 1)) ELSE s

\* str.strip()
Strip(s) == LStrip(RStrip(s))

----------------------------------------------------------------------------
(* Characters, and the pieces of Python's string and re semantics the code uses *)

LowerLetters ==
    {"a", "b", "c", "d", "e", "f", "g", "h", "i", "j", "k", "l", "m",
     "n", "o", "p", "q", "r", "s", "t", "u", "v", "w", "x", "y", "z"}

UpperLetters ==
    {"A", "B", "C", "D", "E", "F", "G", "H", "I", "J", "K", "L", "M",
     "N", "O", "P", "Q", "R", "S", "T", "U", "V", "W", "X", "Y", "Z"}

Digits == {"0", "1", "2", "3", "4", "5", "6", "7", "8", "9"}

\* the regular expression \w
IsWord(c) == c \in LowerLetters \cup UpperLetters \cup Digits \cup {"_"}

\* the regular expression [\w\.]
IsWordDot(c) == IsWord(c) \/ c = "."

\* the regular expression [a-zA-Z0-9_\.]
IsDecoratorChar(c) == IsWordDot(c)

\* whether w stands in s at index i
HasPrefixAt(s, i, w) ==
    /\ i >= 1
    /\ i + Len(w) - 1 <= Len(s)
    /\ SubSeq(s, i, i + Len(w) - 1) = w

\* the index after the longest run of whitespace (\s*, greedy) starting at i
SkipSpace(s, i) ==
    CHOOSE j \in i..(Len(s) + 1) :
        /\ \A k \in i..(j - 1) : IsSpace(s[k])
        /\ (j = Len(s) + 1 \/ ~IsSpace(s[j]))

\* the index after the longest run of \w starting at i
SkipWord(s, i) ==
    CHOOSE j \in i..(Len(s) + 1) :
        /\ \A k \in i..(j - 1) : IsWord(s[k])
        /\ (j = Len(s) + 1 \/ ~IsWord(s[j]))

\* the index after the longest run of [\w\.] starting at i
SkipWordDot(s, i) ==
    CHOOSE j \in i..(Len(s) + 1) :
        /\ \A k \in i..(j - 1) : IsWordDot(s[k])
        /\ (j = Len(s) + 1 \/ ~IsWordDot(s[j]))

\* the index after the longest run of non-whitespace (\S+) starting at i
SkipNonSpace(s, i) ==
    CHOOSE j \in i..(Len(s) + 1) :
        /\ \A k \in i..(j - 1) : ~IsSpace(s[k])
        /\ (j = Len(s) + 1 \/ IsSpace(s[j]))

\* the index of the end of the physical line holding index i: of its "\n", or
\* Len(s) + 1
LineEnd(s, i) ==
    CHOOSE j \in i..(Len(s) + 1) :
        /\ \A k \in i..(j - 1) : s[k] # "\n"
        /\ (j = Len(s) + 1 \/ s[j] = "\n")

\* str.find(c): the first index of c in s, 0 when there is none
Find(s, c) ==
    IF c \in Range(s) THEN Min({i \in 1..Len(s) : s[i] = c}) ELSE 0

\* str.split(c): the pieces of s between the occurrences of c
RECURSIVE SplitOn(_, _)
SplitOn(s, c) ==
    IF Find(s, c) = 0
    THEN <<s>>
    ELSE <<SubSeq(s, 1, Find(s, c) - 1)>> \o SplitOn(SubSeq(s, Find(s, c) + 1, Len(s)), c)

\* a dict: a function from its keys; dict.get gives None for a missing key
EmptyDict == [k \in {} |-> None]

DictGet(d, k) == IF k \in DOMAIN d THEN d[k] ELSE None

DictSet(d, k, v) == [x \in (DOMAIN d) \cup {k} |-> IF x = k THEN v ELSE d[x]]

\* truthiness of an Optional[str]
Truthy(v) == v # None /\ v # <<>>

----------------------------------------------------------------------------
(* Outcomes: what a call returns, or the exception it raises *)

\* a call that returned None
ReturnedNone == [kind |-> "none", value |-> <<>>, exc |-> ""]

\* a call that returned the list v
Returned(v) == [kind |-> "list", value |-> v, exc |-> ""]

\* a call that returned the empty dict {}
ReturnedEmptyDict == [kind |-> "dict", value |-> <<>>, exc |-> ""]

\* a call that raised the exception e
Raised(e) == [kind |-> "raise", value |-> <<>>, exc |-> e]

----------------------------------------------------------------------------
(* is_numeric, guess_type_from_name, guess_type_from_value *)

Lower(c) ==
    CASE c = "I" -> "i" [] c = "N" -> "n" [] c = "F" -> "f" [] c = "A" -> "a"
      [] c = "T" -> "t" [] c = "Y" -> "y" [] OTHER -> c

\* a run of digits, single underscores allowed between two digits
IsDigitPart(t) ==
    /\ t # <<>>
    /\ \A i \in 1..Len(t) : t[i] \in Digits \cup {"_"}
    /\ t[1] \in Digits
    /\ t[Len(t)] \in Digits
    /\ \A i \in 1..(Len(t) - 1) : ~(t[i] = "_" /\ t[i + 1] = "_")

IsMantissa(m) ==
    \/ IsDigitPart(m)
    \/ \E d \in 1..Len(m) :
          /\ m[d] = "."
          /\ LET a == SubSeq(m, 1, d - 1)
                 b == SubSeq(m, d + 1, Len(m))
             IN  /\ (a = <<>> \/ IsDigitPart(a))
                 /\ (b = <<>> \/ IsDigitPart(b))
                 /\ ~(a = <<>> /\ b = <<>>)

Unsigned(t) == IF t # <<>> /\ t[1] \in {"+", "-"} THEN Tail(t) ELSE t

IsExponent(x) ==
    \/ x = <<>>
    \/ /\ Len(x) >= 2
       /\ x[1] \in {"e", "E"}
       /\ IsDigitPart(Unsigned(Tail(x)))

\* whether float(val) succeeds: the literal grammar of Python's float()
is_numeric(val) ==
    LET t == Unsigned(Strip(val))
        low == [i \in 1..Len(t) |-> Lower(t[i])]
    IN  \/ low \in {<<"i", "n", "f">>, <<"i", "n", "f", "i", "n", "i", "t", "y">>, <<"n", "a", "n">>}
        \/ \E k \in 1..Len(t) :
              /\ IsMantissa(SubSeq(t, 1, k))
              /\ IsExponent(SubSeq(t, k + 1, Len(t)))

T_bool == <<"b", "o", "o", "l">>

T_function == <<"f", "u", "n", "c", "t", "i", "o", "n">>

T_number == <<"n", "u", "m", "b", "e", "r">>

T_str == <<"s", "t", "r">>

T_list == <<"l", "i", "s", "t">>

T_dict == <<"d", "i", "c", "t">>

T_tuple == <<"t", "u", "p", "l", "e">>

T_regexp == <<"r", "e", "g", "e", "x", "p">>

T_unicode == <<"u", "n", "i", "c", "o", "d", "e">>

guess_type_from_name(name) ==
    IF /\ (HasPrefixAt(name, 1, <<"i", "s">>) \/ HasPrefixAt(name, 1, <<"h", "a", "s">>))
       /\ LET n == IF HasPrefixAt(name, 1, <<"i", "s">>) THEN 3 ELSE 4
          IN  n <= Len(name) /\ name[n] \in UpperLetters \cup {"_"}
    THEN T_bool
    ELSE IF name \in {<<"c", "b">>, <<"c", "a", "l", "l", "b", "a", "c", "k">>, <<"d", "o", "n", "e">>, <<"n", "e", "x", "t">>, <<"f", "n">>}
    THEN T_function
    ELSE None

guess_type_from_value(value) ==
    IF value = None THEN None
    ELSE IF is_numeric(value) THEN T_number
    ELSE IF value # <<>> /\ value[1] \in {"\"", "'"} THEN T_str
    ELSE IF value # <<>> /\ value[1] = "[" THEN T_list
    ELSE IF value # <<>> /\ value[1] = "{" THEN T_dict
    ELSE IF value # <<>> /\ value[1] = "(" THEN T_tuple
    ELSE IF value \in {<<"T", "r", "u", "e">>, <<"F", "a", "l", "s", "e">>} THEN T_bool
    ELSE IF Len(value) >= 2 /\ value[1] \in {"r", "R"} /\ value[2] \in {"'", "\""}
    THEN T_regexp
    ELSE IF Len(value) >= 2 /\ value[1] \in {"u", "U"} /\ value[2] \in {"'", "\""}
    THEN T_unicode
    ELSE IF HasPrefixAt(value, 1, <<"l", "a", "m", "b", "d", "a", " ">>) THEN T_function
    ELSE None

----------------------------------------------------------------------------
(* split_by_commas *)

open_quotes == <<"\"", "'", "<", "(", "{", "[">>

close_quotes == <<"\"", "'", ">", ")", "}", "]">>

\* open_quotes.find(char): the 1-based index of char, 0 when it is not there
QuoteIndex(char) ==
    IF \E k \in 1..Len(open_quotes) : open_quotes[k] = char
    THEN Min({k \in 1..Len(open_quotes) : open_quotes[k] = char})
    ELSE 0

\* the locals of split_by_commas before its loop
SplitInit ==
    [out |-> <<>>, current |-> <<>>, matching_quote |-> "",
     inside_quotes |-> FALSE, is_next_literal |-> FALSE]

\* a plausible slip: a span closes at any closing character, not at its own
SplitStepAnyCloser(st, char) ==
    IF st.is_next_literal
    THEN [st EXCEPT !.current = Append(@, char), !.is_next_literal = FALSE]
    ELSE IF st.inside_quotes
    THEN IF char = "\\"
         THEN [st EXCEPT !.is_next_literal = TRUE]
         ELSE [st EXCEPT !.current = Append(@, char),
                         !.inside_quotes = ~(char \in Range(close_quotes))]
    ELSE IF char = ","
    THEN [st EXCEPT !.out = IF Len(Strip(st.current)) > 0
                            THEN Append(@, Strip(st.current)) ELSE @,
                    !.current = <<>>]
    ELSE IF QuoteIndex(char) > 0
    THEN [st EXCEPT !.current = Append(@, char),
                    !.matching_quote = close_quotes[QuoteIndex(char)],
                    !.inside_quotes = TRUE]
    ELSE [st EXCEPT !.current = Append(@, char)]

\* one iteration of the loop over the characters
SplitStep(st, char) ==
    IF st.is_next_literal
    THEN [st EXCEPT !.current = Append(@, char), !.is_next_literal = FALSE]
    ELSE IF st.inside_quotes
    THEN IF char = "\\"
         THEN [st EXCEPT !.is_next_literal = TRUE]
         ELSE [st EXCEPT !.current = Append(@, char),
                         !.inside_quotes = ~(char = st.matching_quote)]
    ELSE IF char = ","
    THEN [st EXCEPT !.out = IF Len(Strip(st.current)) > 0
                            THEN Append(@, Strip(st.current)) ELSE @,
                    !.current = <<>>]
    ELSE IF QuoteIndex(char) > 0
    THEN [st EXCEPT !.current = Append(@, char),
                    !.matching_quote = close_quotes[QuoteIndex(char)],
                    !.inside_quotes = TRUE]
    ELSE [st EXCEPT !.current = Append(@, char)]

RECURSIVE SplitLoop(_, _, _)
SplitLoop(st, s, i) ==
    IF i > Len(s) THEN st ELSE SplitLoop(SplitStep(st, s[i]), s, i + 1)

split_by_commas(s) ==
    IF s = <<>>
    THEN <<>>
    ELSE LET st == SplitLoop(SplitInit, s, 1)
         IN  IF Len(Strip(st.current)) > 0
             THEN Append(st.out, Strip(st.current))
             ELSE st.out

----------------------------------------------------------------------------
(* process_variable *)

S_Optional == <<"O", "p", "t", "i", "o", "n", "a", "l", "[">>

\* re.match(r"^Optional\[.+?\]$", hint)
IsOptionalHint(h) ==
    /\ HasPrefixAt(h, 1, S_Optional)
    /\ Len(h) >= Len(S_Optional) + 2
    /\ h[Len(h)] = "]"
    /\ "\n" \notin Range(h)

\* re.sub(r"^Optional\[(.+?)\]$", r"\1", hint)
OptionalInner(h) == SubSeq(h, Len(S_Optional) + 1, Len(h) - 1)

\* a or b or c
Or3(a, b, c) == IF Truthy(a) THEN a ELSE IF Truthy(b) THEN b ELSE c

\* the end of process_variable: params["name"], params["type"]; the outcome is
\* the params record and the hints dict as the call leaves it
VariableParams(variable, default, hints) ==
    [params |-> [name |-> variable,
                 type |-> Or3(DictGet(hints, variable),
                              guess_type_from_value(default),
                              guess_type_from_name(variable)),
                 default |-> default],
     hints |-> hints]

\* the Optional[T] hint of a variable with a default becomes T
VariableOptional(variable, default, hints) ==
    VariableParams(variable, default,
        IF /\ Truthy(default)
           /\ Truthy(DictGet(hints, variable))
           /\ IsOptionalHint(hints[variable])
        THEN DictSet(hints, variable, OptionalInner(hints[variable]))
        ELSE hints)

\* variable.split(":", 2) when a ":" stands inside the variable
VariableHint(variable, default, hints) ==
    IF 1 < Find(variable, ":") /\ Find(variable, ":") < Len(variable)
    THEN VariableOptional(Strip(SplitOn(variable, ":")[1]), default,
             DictSet(hints, Strip(SplitOn(variable, ":")[1]),
                     Strip(SplitOn(variable, ":")[2])))
    ELSE VariableOptional(variable, default, hints)

process_variable(variable, hints) ==
    IF "=" \in Range(variable)
    THEN VariableHint(Strip(SplitOn(variable, "=")[1]),
                      Strip(SplitOn(variable, "=")[2]), hints)
    ELSE VariableHint(variable, None, hints)

----------------------------------------------------------------------------
(* parse_variables, process_module *)

\* ^ under re.MULTILINE
IsLineStart(s, p) == p = 1 \/ (p >= 2 /\ p <= Len(s) + 1 /\ s[p - 1] = "\n")

ExcludedStarts == {<<"f", "r", "o", "m", " ">>, <<"i", "m", "p", "o", "r", "t", " ">>, <<"a", "s", "y", "n", "c", " ">>, <<"d", "e", "f", " ">>, <<"c", "l", "a", "s", "s", " ">>, <<"@">>}

\* (?!from |import |async |def |class |@) at index k
NotExcludedAt(s, k) == \A w \in ExcludedStarts : ~HasPrefixAt(s, k, w)

\* the starts of group 1 with which ^\s*((?:(?!...).)+$) matches at p
VariableStarts(s, p) ==
    {q \in p..SkipSpace(s, p) :
        /\ LineEnd(s, q) > q
        /\ \A k \in q..(LineEnd(s, q) - 1) : NotExcludedAt(s, k)}

\* the line starts from pos on at which the expression matches
VariableMatches(s, pos) ==
    {p \in pos..Len(s) : IsLineStart(s, p) /\ VariableStarts(s, p) # {}}

\* the start of group 1 of the first match among P, 0 when P is empty: \s* is
\* greedy, so the match at a line start is the one whose group starts last
FirstVariable(s, P) == IF P = {} THEN 0 ELSE Max(VariableStarts(s, Min(P)))

\* re.findall(regex, contents) from index pos on
RECURSIVE FindVariables(_, _), VariablesFrom(_, _)
FindVariables(s, pos) == VariablesFrom(s, FirstVariable(s, VariableMatches(s, pos)))
VariablesFrom(s, q) ==
    IF q = 0 THEN <<>>
    ELSE <<SubSeq(s, q, LineEnd(s, q) - 1)>> \o FindVariables(s, LineEnd(s, q))

RECURSIVE ProcessEach(_)
ProcessEach(matches) ==
    IF matches = <<>> THEN <<>>
    ELSE <<process_variable(Head(matches), EmptyDict).params>> \o ProcessEach(Tail(matches))

VariablesOf(matches) ==
    IF Len(matches) = 0 THEN ReturnedNone ELSE Returned(ProcessEach(matches))

parse_variables(c) == VariablesOf(FindVariables(c, 1))

ModuleOf(variables) ==
    Returned(IF variables.kind # "none"
             THEN <<<<"attributes", variables.value>>>>
             ELSE <<>>)

process_module(l, c) ==
    IF l # None THEN ReturnedNone ELSE ModuleOf(parse_variables(c))

----------------------------------------------------------------------------
(* parse_extends, process_class *)

S_class == <<"c", "l", "a", "s", "s", " ">>

S_object == <<"o", "b", "j", "e", "c", "t">>

\* re.match(r"^\s*(class )", line)
IsClassLine(l) == HasPrefixAt(l, SkipSpace(l, 1), S_class)

\* the index of the "(" with which ^\s*class \w*\( matches, 0 when it does not
ClassParen(l) ==
    IF /\ IsClassLine(l)
       /\ HasPrefixAt(l, SkipWord(l, SkipSpace(l, 1) + Len(S_class)), <<"(">>)
    THEN SkipWord(l, SkipSpace(l, 1) + Len(S_class))
    ELSE 0

\* re.search(r"^\s*class \w*\((.*)\):\s*$", line): the indexes of the ")" that
\* group 1 can end before
ExtendsEnds(l, w) ==
    IF w = 0 THEN {}
    ELSE {c \in (w + 1)..Len(l) :
             /\ HasPrefixAt(l, c, <<")", ":">>)
             /\ SkipSpace(l, c + 2) = Len(l) + 1
             /\ \A k \in (w + 1)..(c - 1) : l[k] # "\n"}

RECURSIVE DropObject(_)
DropObject(extends) ==
    IF extends = <<>> THEN <<>>
    ELSE IF Head(extends) = S_object THEN DropObject(Tail(extends))
    ELSE <<Head(extends)>> \o DropObject(Tail(extends))

ExtendsOf(l, w, ends) ==
    IF ends = {} THEN ReturnedNone
    ELSE Returned(DropObject(split_by_commas(SubSeq(l, w + 1, Max(ends) - 1))))

parse_extends(l) == ExtendsOf(l, ClassParen(l), ExtendsEnds(l, ClassParen(l)))

ClassOf(extends, variables) ==
    Returned((IF extends.kind # "none"
              THEN <<<<"extends", extends.value>>>> ELSE <<>>)
             \o (IF variables.kind # "none"
                 THEN <<<<"attributes", variables.value>>>> ELSE <<>>))

process_class(l, c) ==
    IF ~IsClassLine(l) THEN ReturnedNone
    ELSE ClassOf(parse_extends(l), parse_variables(c))

----------------------------------------------------------------------------
(* parse_decorators *)

excluded_decorators == {<<"c", "l", "a", "s", "s", "m", "e", "t", "h", "o", "d">>, <<"s", "t", "a", "t", "i", "c", "m", "e", "t", "h", "o", "d">>, <<"p", "r", "o", "p", "e", "r", "t", "y">>}

\* re.findall(r"^\s*@([a-zA-Z0-9_\.]*)(\(.*\)|$)", line) is not empty; e is the
\* index after the name
DecoratorMatches(l, e) ==
    /\ HasPrefixAt(l, SkipSpace(l, 1), <<"@">>)
    /\ \/ e = Len(l) + 1
       \/ /\ HasPrefixAt(l, e, <<"(">>)
          /\ \E c \in (e + 1)..(LineEnd(l, e) - 1) : l[c] = ")"
       \/ e = Len(l) /\ l[e] = "\n"

IsDecoratorLine(l) == DecoratorMatches(l, SkipWordDot(l, SkipSpace(l, 1) + 1))

\* match[0][0]
DecoratorName(l) ==
    SubSeq(l, SkipSpace(l, 1) + 1, SkipWordDot(l, SkipSpace(l, 1) + 1) - 1)

RECURSIVE DecoratorLoop(_, _)
DecoratorLoop(lines, definition) ==
    IF lines = <<>> THEN <<>>
    ELSE IF Head(lines) = definition THEN <<>>
    ELSE IF ~IsDecoratorLine(Head(lines)) THEN DecoratorLoop(Tail(lines), definition)
    ELSE IF DecoratorName(Head(lines)) \in excluded_decorators
    THEN DecoratorLoop(Tail(lines), definition)
    ELSE <<DecoratorName(Head(lines))>> \o DecoratorLoop(Tail(lines), definition)

parse_decorators(definition, content) ==
    DecoratorLoop(SplitOn(content, "\n"), definition)

----------------------------------------------------------------------------
(* parse_arguments *)

S_def == <<"d", "e", "f">>

\* ^\s*def\s+\w+\( matches at the start of l, i2 the index after "def" and its
\* whitespace, i3 the index after the name: the index of the "(", 0 when none
DefParenAt(l, i2, i3) ==
    IF /\ HasPrefixAt(l, SkipSpace(l, 1), S_def)
       /\ i2 > SkipSpace(l, 1) + Len(S_def)
       /\ i3 > i2
       /\ HasPrefixAt(l, i3, <<"(">>)
    THEN i3 ELSE 0

DefName(l) == SkipSpace(l, SkipSpace(l, 1) + Len(S_def))

DefParen(l) == DefParenAt(l, DefName(l), SkipWord(l, DefName(l)))

\* re.search(r"^\s*def\s+\w+\((.*)\)", line): the indexes of the ")" that can end
\* the match, the "(" being at index w
ArgumentsEnds(l, w) ==
    IF w = 0 THEN {}
    ELSE {c \in (w + 1)..(LineEnd(l, w) - 1) : l[c] = ")"}

\* the index after the match of ([\w\.]+\[[^:]*\]|[\w\.]+) at i, w the index
\* after the run of [\w\.] and nc the index of the next ":" (Len(s) + 1 when
\* none): 0 when neither alternative matches; [^:]* is greedy and gives back to
\* the last "]"
TypeEndAt(s, i, w, closers) ==
    IF w = i THEN 0
    ELSE IF HasPrefixAt(s, w, <<"[">>) /\ closers # {} THEN Max(closers) + 1
    ELSE w

NextColon(s, w) ==
    IF \E k \in w..Len(s) : s[k] = ":"
    THEN Min({k \in w..Len(s) : s[k] = ":"})
    ELSE Len(s) + 1

TypeClosers(s, w, nc) == {r \in (w + 1)..(nc - 1) : s[r] = "]"}

TypeEnd(s, i) ==
    TypeEndAt(s, i, SkipWordDot(s, i),
              TypeClosers(s, SkipWordDot(s, i), NextColon(s, SkipWordDot(s, i))))

\* (\w+)\s*:\s*([\w\.]+\[[^:]*\]|[\w\.]+)\s* at i: the index of the ":"
HintColon(s, i) == SkipSpace(s, SkipWord(s, i))

HintMatchesAt(s, i) ==
    /\ SkipWord(s, i) > i
    /\ HasPrefixAt(s, HintColon(s, i), <<":">>)
    /\ TypeEnd(s, SkipSpace(s, HintColon(s, i) + 1)) # 0

\* dict(re.findall(...)) from index pos on, added to the dict h; the match at
\* pos has its type from t to before e
RECURSIVE FindHints(_, _, _), HintFound(_, _, _, _, _)
FindHints(s, pos, h) ==
    IF pos > Len(s) THEN h
    ELSE IF HintMatchesAt(s, pos)
    THEN HintFound(s, pos, h, SkipSpace(s, HintColon(s, pos) + 1),
                   TypeEnd(s, SkipSpace(s, HintColon(s, pos) + 1)))
    ELSE FindHints(s, pos + 1, h)
HintFound(s, pos, h, t, e) ==
    FindHints(s, SkipSpace(s, e),
              DictSet(h, SubSeq(s, pos, SkipWord(s, pos) - 1), SubSeq(s, t, e - 1)))

\* re.sub(r":\s*([\w\.]+\[[^:]*\]|[\w\.]+)\s*", "", s) from index pos on
RECURSIVE RemoveHints(_, _), HintRemoved(_, _, _)
RemoveHints(s, pos) ==
    IF pos > Len(s) THEN <<>>
    ELSE IF s[pos] = ":"
    THEN HintRemoved(s, pos, TypeEnd(s, SkipSpace(s, pos + 1)))
    ELSE <<s[pos]>> \o RemoveHints(s, pos + 1)
HintRemoved(s, pos, e) ==
    IF e # 0 THEN RemoveHints(s, SkipSpace(s, e))
    ELSE <<s[pos]>> \o RemoveHints(s, pos + 1)

excluded_parameters == {<<"s", "e", "l", "f">>, <<"c", "l", "s">>}

\* the outcome of parse_arguments: None, the record of the two lists, or a raise
ArgumentsNone ==
    [kind |-> "none", arguments |-> <<>>, keyword_arguments |-> <<>>, exc |-> ""]

ArgumentsRaised(e) ==
    [kind |-> "raise", arguments |-> <<>>, keyword_arguments |-> <<>>, exc |-> e]

\* parsed_arguments before the loop
ArgumentsEmpty ==
    [kind |-> "dict", arguments |-> <<>>, keyword_arguments |-> <<>>, exc |-> ""]

S_Tuple == <<"T", "u", "p", "l", "e", "[">>

\* the loop over enumerate(arguments) from index idx (1-based) on; pa is
\* parsed_arguments so far
RECURSIVE ArgumentLoop(_, _, _, _), ArgumentStarred(_, _, _, _, _),
          ArgumentVariable(_, _, _, _, _), ArgumentAppend(_, _, _, _, _)
ArgumentLoop(arguments, idx, hints, pa) ==
    IF idx > Len(arguments) THEN pa
    ELSE IF idx = 1 /\ arguments[idx] \in excluded_parameters
    THEN ArgumentLoop(arguments, idx + 1, hints, pa)
    ELSE IF arguments[idx][1] = "*"
    THEN ArgumentStarred(arguments, idx, hints, pa, Tail(arguments[idx]))
    ELSE ArgumentVariable(arguments, idx, hints, pa, arguments[idx])
\* hints[argument] = f"Tuple[{hints[argument]}]" raises KeyError for a missing key
ArgumentStarred(arguments, idx, hints, pa, argument) ==
    IF argument \notin DOMAIN hints THEN ArgumentsRaised("KeyError")
    ELSE ArgumentVariable(arguments, idx,
             DictSet(hints, argument, S_Tuple \o hints[argument] \o <<"]">>),
             pa, argument)
ArgumentVariable(arguments, idx, hints, pa, argument) ==
    ArgumentAppend(arguments, idx, hints, pa, process_variable(argument, hints))
\* `if not hints: hints = {}` in process_variable rebinds an empty dict, so the
\* dict of parse_arguments changes only when it is not empty
ArgumentAppend(arguments, idx, hints, pa, pv) ==
    ArgumentLoop(arguments, idx + 1,
        IF DOMAIN hints = {} THEN hints ELSE pv.hints,
        IF "=" \in Range(arguments[idx])
        THEN [pa EXCEPT !.keyword_arguments = Append(@, pv.params)]
        ELSE [pa EXCEPT !.arguments = Append(@, pv.params)])

ArgumentsOf(hints, arguments) ==
    IF arguments = <<>> THEN ArgumentsNone
    ELSE ArgumentLoop(split_by_commas(arguments), 1, hints, ArgumentsEmpty)

ArgumentsIn(group) ==
    ArgumentsOf(FindHints(group, 1, EmptyDict), RemoveHints(group, 1))

\* arguments.group(1) of a failed search raises AttributeError
ArgumentsGroup(l, w, ends) ==
    IF ends = {} THEN ArgumentsRaised("AttributeError")
    ELSE ArgumentsIn(SubSeq(l, w + 1, Max(ends) - 1))

parse_arguments(l) == ArgumentsGroup(l, DefParen(l), ArgumentsEnds(l, DefParen(l)))

----------------------------------------------------------------------------
(* parse_returns, parse_raises *)

S_return == <<"r", "e", "t", "u", "r", "n">>

S_yield == <<"y", "i", "e", "l", "d">>

\* the index after "return " or "yield " at q, 0 when neither stands there
ReturnValueAt(s, q) ==
    IF HasPrefixAt(s, q, S_return \o <<" ">>) THEN q + Len(S_return) + 1
    ELSE IF HasPrefixAt(s, q, S_yield \o <<" ">>) THEN q + Len(S_yield) + 1
    ELSE 0

\* ^\s*(return|yield) (\S+) matches at the line start p, v the index of the value
ReturnMatches(s, v) == v # 0 /\ SkipNonSpace(s, v) > v

ReturnMatchesAt(s, p) == ReturnMatches(s, ReturnValueAt(s, SkipSpace(s, p)))

ReturnStarts(s) == {p \in 1..Len(s) : IsLineStart(s, p) /\ ReturnMatchesAt(s, p)}

\* ^\s*def\s+\w+\(.*\)\s*->\s*([\w\.]+\[[^:]*\]|[\w\.]+)\s*: goes on after a ")",
\* b the index of the type, w the index after its run of [\w\.], nc the index of
\* the next ":": the last index of group 1, 0 when it does not match
HintEndAt(s, b, w, nc, closers) ==
    IF w = b THEN 0
    ELSE IF HasPrefixAt(s, w, <<"[">>) /\ closers # {} THEN Max(closers)
    ELSE IF HasPrefixAt(s, SkipSpace(s, w), <<":">>) THEN w - 1
    ELSE 0

HintClosers(s, w, nc) ==
    {r \in (w + 1)..(nc - 1) : s[r] = "]" /\ SkipSpace(s, r + 1) = nc}

HintEnd(s, b) ==
    HintEndAt(s, b, SkipWordDot(s, b), NextColon(s, SkipWordDot(s, b)),
              HintClosers(s, SkipWordDot(s, b), NextColon(s, SkipWordDot(s, b))))

\* the index of the type after the ")" at c, 0 when no "->" follows
HintType(s, a) == IF HasPrefixAt(s, a, <<"-", ">">>) THEN SkipSpace(s, a + 2) ELSE 0

HintAfter(s, b) == IF b = 0 THEN 0 ELSE HintEnd(s, b)

\* the ")" that .* (greedy, re.DOTALL) can end before
HintParens(s, w) ==
    IF w = 0 THEN {}
    ELSE {c \in (w + 1)..Len(s) :
             s[c] = ")" /\ HintAfter(s, HintType(s, SkipSpace(s, c + 1))) # 0}

HintGroup(s, b) == SubSeq(s, b, HintEnd(s, b))

HintOf(s, parens) ==
    IF parens = {} THEN None
    ELSE HintGroup(s, HintType(s, SkipSpace(s, Max(parens) + 1)))

\* hint.group(1), None when re.search finds nothing
ReturnHint(s) == HintOf(s, HintParens(s, DefParen(s)))

\* (return_type, {"type": return_value_type})
ReturnPair(keyword, value, hint) ==
    Returned(<<IF keyword = "r" THEN "returns" ELSE "yields",
               [type |-> IF Truthy(hint) THEN hint ELSE guess_type_from_value(value)]>>)

\* match[0], that starts at q with its value at v
ReturnFirst(c, q, v) ==
    ReturnPair(c[q], SubSeq(c, v, SkipNonSpace(c, v) - 1), ReturnHint(c))

ReturnsAt(c, q) == ReturnFirst(c, q, ReturnValueAt(c, q))

ReturnsOf(c, starts) ==
    IF starts = {} THEN ReturnedNone ELSE ReturnsAt(c, SkipSpace(c, Min(starts)))

\* the outcome: None, or the pair
parse_returns(c) == ReturnsOf(c, ReturnStarts(c))

S_raise == <<"r", "a", "i", "s", "e", " ">>

\* ^\s*(raise) (\w+) matches at the line start p, n the index of the name
RaiseMatches(s, n) ==
    /\ HasPrefixAt(s, n - Len(S_raise), S_raise)
    /\ SkipWord(s, n) > n

RaiseMatchesAt(s, p) == RaiseMatches(s, SkipSpace(s, p) + Len(S_raise))

RaiseStarts(s, pos) == {p \in pos..Len(s) : IsLineStart(s, p) /\ RaiseMatchesAt(s, p)}

\* group 2 of every match of re.findall from index pos on
RECURSIVE FindRaises(_, _), RaisesFrom(_, _), RaiseAt(_, _)
FindRaises(s, pos) == RaisesFrom(s, RaiseStarts(s, pos))
RaisesFrom(s, P) ==
    IF P = {} THEN <<>> ELSE RaiseAt(s, SkipSpace(s, Min(P)) + Len(S_raise))
RaiseAt(s, n) == <<SubSeq(s, n, SkipWord(s, n) - 1)>> \o FindRaises(s, SkipWord(s, n))

\* the loop that keeps the first occurrence of each exception
RECURSIVE RaisesLoop(_, _)
RaisesLoop(match, raises) ==
    IF match = <<>> THEN raises
    ELSE RaisesLoop(Tail(match),
                    IF Head(match) \in Range(raises) THEN raises
                    ELSE Append(raises, Head(match)))

\* a plausible slip: the empty list instead of None
RaisesOfPlaceholder(match) == Returned(RaisesLoop(match, <<>>))

RaisesOf(match) ==
    IF Len(match) = 0 THEN ReturnedNone ELSE Returned(RaisesLoop(match, <<>>))

parse_raises(c) == RaisesOf(FindRaises(c, 1))

----------------------------------------------------------------------------
(* process_function, parse *)

\* re.match(r"^\s*(def )", line)
IsDefLine(l) == HasPrefixAt(l, SkipSpace(l, 1), S_def \o <<" ">>)

\* parsed_function, or the exception parse_arguments raised
FunctionOf(decorators, arguments, returns, raises) ==
    IF arguments.kind = "raise" THEN Raised(arguments.exc)
    ELSE Returned(
           (IF Len(decorators) > 0
            THEN <<<<"decorators", decorators>>>> ELSE <<>>)
        \o (IF arguments.kind # "none"
            THEN <<<<"arguments",
                     [arguments |-> arguments.arguments,
                      keyword_arguments |-> arguments.keyword_arguments]>>>>
            ELSE <<>>)
        \o (IF returns.kind # "none" THEN <<returns.value>> ELSE <<>>)
        \o (IF raises.kind # "none"
            THEN <<<<"raises", raises.value>>>> ELSE <<>>))

process_function(l, c) ==
    IF ~IsDefLine(l) THEN ReturnedNone
    ELSE FunctionOf(parse_decorators(l, c), parse_arguments(l),
                    parse_returns(c), parse_raises(c))

\* the first of the three outcomes that is not None, {} when each is None
FirstOutput(module, class, function) ==
    IF module.kind # "none" THEN module
    ELSE IF class.kind # "none" THEN class
    ELSE IF function.kind # "none" THEN function
    ELSE ReturnedEmptyDict

\* the outcome of parse: what it returns, or the exception that leaves it
parse(l, c) ==
    FirstOutput(process_module(l, c), process_class(l, c), process_function(l, c))

----------------------------------------------------------------------------
(* sublime.View as the code uses it *)

\* the character at index i of s, "" where s has none
CharAt(s, i) == IF i \in 1..Len(s) THEN s[i] ELSE ""

\* view.size()
view_size(v) == Len(v.text)

\* view.line(pt): the region of the physical line that holds the offset pt,
\* without its "\n"
view_line(v, pt) ==
    <<Max({a \in 0..pt : a = 0 \/ v.text[a] = "\n"}),
      Min({b \in pt..view_size(v) : b = view_size(v) \/ v.text[b + 1] = "\n"})>>

\* view.substr(region)
view_substr(v, region) == SubSeq(v.text, region[1] + 1, region[2])

\* the column where the indentation of the line s ends: a blank is one column
\* wide and a tab reaches to the next multiple of the tab size
RECURSIVE IndentColumn(_, _, _)
IndentColumn(s, tab_size, column) ==
    IF s # <<>> /\ Head(s) = " " THEN IndentColumn(Tail(s), tab_size, column + 1)
    ELSE IF s # <<>> /\ Head(s) = "\t"
    THEN IndentColumn(Tail(s), tab_size, (column \div tab_size + 1) * tab_size)
    ELSE column

\* view.indentation_level(pt): the indentation of the line that holds pt, in
\* units of the tab size
view_indentation_level(v, pt) ==
    IndentColumn(view_substr(v, view_line(v, pt)), v.tab_size, 0) \div v.tab_size

----------------------------------------------------------------------------
(* is_start_keyword, read_next_line *)

K_def == <<"d", "e", "f">>

K_class == <<"c", "l", "a", "s", "s">>

K_async == <<"a", "s", "y", "n", "c">>

\* w and at least one whitespace character stand in s at index i
KeywordAt(s, i, w) == HasPrefixAt(s, i, w) /\ IsSpace(CharAt(s, i + Len(w)))

\* START_KEYWORD_RULES: ^def\s+, ^class\s+, ^async\s+def\s+
START_KEYWORD_RULES(s) ==
    <<KeywordAt(s, 1, K_def),
      KeywordAt(s, 1, K_class),
      KeywordAt(s, 1, K_async) /\ KeywordAt(s, SkipSpace(s, 6), K_def)>>

is_start_keyword(s) == \E i \in 1..3 : START_KEYWORD_RULES(s)[i]

RECURSIVE ForwardFrom(_, _)

\* a forward walk yields the line and goes on from its end
ForwardYield(v, current_line) ==
    <<current_line>> \o ForwardFrom(v, current_line[2] + 1)

\* one turn of the loop of a forward walk: the lines yielded from next_line on
ForwardFrom(v, next_line) ==
    IF ~(next_line < view_size(v) /\ next_line > 0)
    THEN <<>>
    ELSE ForwardYield(v, view_line(v, next_line))

RECURSIVE ReverseFrom(_, _)

\* a reverse walk yields the line and goes on from its begin unless go_on was
\* cleared: the line, stripped, is a start keyword line
ReverseYield(v, current_line) ==
    <<current_line>> \o
        (IF is_start_keyword(Strip(view_substr(v, current_line)))
         THEN <<>>
         ELSE ReverseFrom(v, current_line[1] - 1))

\* one turn of the loop of a reverse walk.  The code computes go_on before the
\* test of the bounds, and reads it only after a yield.
ReverseFrom(v, next_line) ==
    IF ~(next_line < view_size(v) /\ next_line > 0)
    THEN <<>>
    ELSE ReverseYield(v, view_line(v, next_line))

\* the regions the generator yields when it is run to its end
read_next_line(v, pos, reverse) ==
    IF reverse
    THEN ReverseFrom(v, view_line(v, pos)[1] - 1)
    ELSE ForwardFrom(v, view_line(v, pos)[2] + 1)

----------------------------------------------------------------------------
(* use_multiple_lines *)

\* ^\s*(async\s+)?def\s+\w+\($ from index i on, the optional group taken or not
DefOpensAt(t, i) ==
    /\ KeywordAt(t, i, K_def)
    /\ SkipWord(t, SkipSpace(t, i + 3)) > SkipSpace(t, i + 3)
    /\ SkipWord(t, SkipSpace(t, i + 3)) = Len(t)
    /\ t[Len(t)] = "("

\* \w+(\.\w+)* covers s
IsDottedName(s) ==
    /\ s # <<>>
    /\ \A i \in 1..Len(s) : IsWordDot(s[i])
    /\ s[1] # "." /\ s[Len(s)] # "."
    /\ \A i \in 1..(Len(s) - 1) : ~(s[i] = "." /\ s[i + 1] = ".")

\* import\s+\($ from index i on
ImportOpensAt(t, i) ==
    /\ KeywordAt(t, i, <<"i", "m", "p", "o", "r", "t">>)
    /\ SkipSpace(t, i + 6) = Len(t)
    /\ t[Len(t)] = "("

\* ^from\s+\w+(\.\w+)*\s+import\s+\($ with the dotted name at index n
FromImportAt(t, n) ==
    /\ IsDottedName(SubSeq(t, n, SkipWordDot(t, n) - 1))
    /\ IsSpace(CharAt(t, SkipWordDot(t, n)))
    /\ ImportOpensAt(t, SkipSpace(t, SkipWordDot(t, n)))

\* \w+\($ from index n on
CallOpensAt(t, n) ==
    /\ SkipWord(t, n) > n
    /\ SkipWord(t, n) = Len(t)
    /\ t[Len(t)] = "("

\* ^\w+\s+=\s+\w+\($ with the "=" expected at index m
AssignOpensAt(t, m) ==
    /\ CharAt(t, m) = "="
    /\ IsSpace(CharAt(t, m + 1))
    /\ CallOpensAt(t, SkipSpace(t, m + 1))

MULTILINE_PATTERNS(t) ==
    <<\/ DefOpensAt(t, SkipSpace(t, 1))
      \/ /\ KeywordAt(t, SkipSpace(t, 1), K_async)
         /\ DefOpensAt(t, SkipSpace(t, SkipSpace(t, 1) + 5)),
      KeywordAt(t, 1, <<"f", "r", "o", "m">>) /\ FromImportAt(t, SkipSpace(t, 5)),
      /\ SkipWord(t, 1) > 1
      /\ IsSpace(CharAt(t, SkipWord(t, 1)))
      /\ AssignOpensAt(t, SkipSpace(t, SkipWord(t, 1)))>>

use_multiple_lines(l) == \E i \in 1..3 : MULTILINE_PATTERNS(Strip(l))[i]

----------------------------------------------------------------------------
(* PythonParser.get_definition *)

\* the count of lines that get_definition returns beside None
NoCount == <<>>

\* the loop over the lines of the reverse walk: each, stripped, goes before
\* the line built so far with a blank between
RECURSIVE DefinitionLoop(_, _, _, _, _)
DefinitionLoop(v, regions, i, l, count) ==
    IF i > Len(regions)
    THEN [line |-> l, multiline |-> <<count>>]
    ELSE DefinitionLoop(v, regions, i + 1,
                        Strip(view_substr(v, regions[i])) \o <<" ">> \o l, count + 1)

\* get_definition once the position is reset to the begin of its line
DefinitionFrom(v, begin) ==
    IF begin = 0
    THEN [line |-> None, multiline |-> NoCount]
    ELSE DefinitionLoop(v, read_next_line(v, begin, TRUE), 1, <<>>, 0)

get_definition(v, pos) == DefinitionFrom(v, view_line(v, pos)[1])

----------------------------------------------------------------------------
(* PythonParser.read_above *)

D_class == <<"c", "l", "a", "s", "s">>

D_function == <<"f", "u", "n", "c", "t", "i", "o", "n">>

D_module == <<"m", "o", "d", "u", "l", "e">>

\* multiline and multiline == 1
IsOne(m) == m # NoCount /\ m[1] = 1

\* re.match(r"^\s*(\#)", s)
IsComment(s) == CharAt(s, SkipSpace(s, 1)) = "#"

\* re.match(r"^\s*(\@)", s)
IsDecorator(s) == CharAt(s, SkipSpace(s, 1)) = "@"

\* re.match(r"^\s*(class )", s)
IsClassHeader(s) == HasPrefixAt(s, SkipSpace(s, 1), <<"c", "l", "a", "s", "s", " ">>)

\* re.match(r"^\s*(async\s+)?(def )", s)
IsDefHeader(s) ==
    \/ HasPrefixAt(s, SkipSpace(s, 1), <<"d", "e", "f", " ">>)
    \/ /\ KeywordAt(s, SkipSpace(s, 1), K_async)
       /\ HasPrefixAt(s, SkipSpace(s, SkipSpace(s, 1) + 5), <<"d", "e", "f", " ">>)

\* the type a line sets when none is set yet
TypeOf(type, s) ==
    IF type # None THEN type
    ELSE IF IsClassHeader(s) THEN D_class
    ELSE IF IsDefHeader(s) THEN D_function
    ELSE D_module

RECURSIVE AboveLoop(_, _, _, _, _, _, _)

\* the turn of the loop of read_above for the stripped line s at region r
AboveLine(v, regions, i, level, m, acc, s) ==
    IF Len(s) = 0 \/ IsComment(s)
    THEN AboveLoop(v, regions, i + 1, level, m, acc.docstring_type, acc.definition)
    ELSE IF /\ IsOne(m)
            /\ \/ view_indentation_level(v, regions[i][2]) # level - 1
               \/ acc.docstring_type # None /\ ~IsDecorator(s)
    THEN acc
    ELSE AboveLoop(v, regions, i + 1, level, m,
                   TypeOf(acc.docstring_type, s), s \o <<"\n">> \o acc.definition)

AboveLoop(v, regions, i, level, m, type, def) ==
    IF i > Len(regions)
    THEN [docstring_type |-> type, definition |-> def]
    ELSE AboveLine(v, regions, i, level, m,
                   [docstring_type |-> type, definition |-> def],
                   Strip(view_substr(v, regions[i])))

read_above(v, pos, m) ==
    AboveLoop(v, read_next_line(v, pos, TRUE), 1, view_indentation_level(v, pos), m,
              None, <<>>)

----------------------------------------------------------------------------
(* PythonParser.get_definition_contents *)

\* the text a line adds to the definition
ContentsAppend(s) == IF use_multiple_lines(s) THEN s ELSE s \o <<"\n">>

\* a slip: a deeper line of a class or a module ends the scan
ContentsSkipStops(type, current_indentation, level) ==
    IF current_indentation < level THEN "break"
    ELSE IF type # D_function /\ current_indentation # level THEN "break"
    ELSE "append"

\* what the loop does with a line that is neither blank nor a comment
ContentsSkip(type, current_indentation, level) ==
    IF current_indentation < level THEN "break"
    ELSE IF type # D_function /\ current_indentation # level THEN "continue"
    ELSE "append"

RECURSIVE ContentsLoop(_, _, _, _, _, _)

\* the turn of the loop of get_definition_contents for the line s, stripped on
\* its right, at region regions[i]
ContentsLine(v, regions, i, level, type, def, s, todo) ==
    IF Len(s) = 0 \/ IsComment(s) \/ todo = "continue"
    THEN ContentsLoop(v, regions, i + 1, level, type, def)
    ELSE IF todo = "break"
    THEN def
    ELSE ContentsLoop(v, regions, i + 1, level, type, def \o ContentsAppend(s))

ContentsLoop(v, regions, i, level, type, def) ==
    IF i > Len(regions)
    THEN def
    ELSE ContentsLine(v, regions, i, level, type, def,
                      RStrip(view_substr(v, regions[i])),
                      ContentsSkip(type, view_indentation_level(v, regions[i][2]), level))

\* the forward pass, after read_above returned found
ContentsBelow(v, pos, found) ==
    ContentsLoop(v, read_next_line(v, pos, FALSE), 1, view_indentation_level(v, pos),
                 found.docstring_type, found.definition)

get_definition_contents(v, pos, m) == ContentsBelow(v, pos, read_above(v, pos, m))

----------------------------------------------------------------------------
(* PythonParser.__init__, PythonParser.is_docstring_closed *)

Q3 == <<"\"", "\"", "\"">>

A3 == <<"'", "'", "'">>

\* self.closing_string = '"""'
InitClosingString == Q3

\* re.search(r'^\s*(""".*"""|\'\'\'.*\'\'\')\s*$', l): group(0) of the match, which
\* is the whole of l, None without a match
OneLineMatch(l) ==
    IF /\ Len(Strip(l)) >= 6
       /\ "\n" \notin Range(Strip(l))
       /\ \E q \in {Q3, A3} :
             /\ HasPrefixAt(Strip(l), 1, q)
             /\ HasPrefixAt(Strip(l), Len(Strip(l)) - 2, q)
    THEN l
    ELSE None

\* re.search(r'^\s*("""|\'\'\')', l): group(0) of the match, the whitespace l
\* begins with and the marker, None without a match
MarkerMatch(l) ==
    IF HasPrefixAt(l, SkipSpace(l, 1), Q3) \/ HasPrefixAt(l, SkipSpace(l, 1), A3)
    THEN SubSeq(l, 1, SkipSpace(l, 1) + 2)
    ELSE None

\* the first three characters of the match as it is: a slip that leaves out
\* the strip()
MatchStyleUnstripped(match) == SubSeq(match, 1, 3)

\* s = match.group(0).strip()[0:3]
MatchStyle(match) == SubSeq(Strip(match), 1, 3)

\* set_closing_string: the closing string after the call, and whether the call
\* raised
set_closing_string(closing, match) ==
    IF match = None
    THEN [closing_string |-> closing, raised |-> FALSE]
    ELSE IF MatchStyle(match) \in {Q3, A3}
    THEN [closing_string |-> MatchStyle(match), raised |-> FALSE]
    ELSE [closing_string |-> closing, raised |-> TRUE]

\* the return of is_docstring_closed after a call of set_closing_string
ClosedReturn(value, set) ==
    [ret |-> value, closing_string |-> set.closing_string, raised |-> set.raised]

RECURSIVE ClosedLoop(_, _, _, _, _, _)

\* the turn of the loop of is_docstring_closed for the line s, stripped on its
\* right, of indentation current_indentation
ClosedLine(v, regions, i, level, closing, l, s, current_indentation) ==
    IF Len(s) = 0 \/ current_indentation > level
    THEN ClosedLoop(v, regions, i + 1, level, closing, l)
    ELSE IF current_indentation < level
    THEN ClosedReturn(FALSE, set_closing_string(closing, MarkerMatch(l)))
    ELSE IF MarkerMatch(s) # None
    THEN ClosedReturn(TRUE, set_closing_string(closing, MarkerMatch(s)))
    ELSE ClosedLoop(v, regions, i + 1, level, closing, l)

ClosedLoop(v, regions, i, level, closing, l) ==
    IF i > Len(regions)
    THEN ClosedReturn(FALSE, set_closing_string(closing, MarkerMatch(l)))
    ELSE ClosedLine(v, regions, i, level, closing, l,
                    RStrip(view_substr(v, regions[i])),
                    view_indentation_level(v, regions[i][2]))

\* is_docstring_closed for the text l of the line of the position
ClosedFrom(v, pos, closing, l) ==
    IF OneLineMatch(l) # None
    THEN ClosedReturn(FALSE, set_closing_string(closing, OneLineMatch(l)))
    ELSE ClosedLoop(v, read_next_line(v, pos, FALSE), 1,
                    view_indentation_level(v, pos), closing, l)

is_docstring_closed(v, pos, closing) ==
    ClosedFrom(v, pos, closing, view_substr(v, view_line(v, pos)))

----------------------------------------------------------------------------
(* read_next_line as the generator it is: its frame between two resumptions *)

\* no generator was created
NoWalk ==
    [pc |-> "idle", reverse |-> FALSE, current_line |-> <<0, 0>>, go_on |-> TRUE,
     yielded |-> <<>>]

\* next_line = current_line.begin() if reverse else current_line.end();
\* next_line += modifier
NextCandidate(current_line, reverse) ==
    IF reverse THEN current_line[1] - 1 ELSE current_line[2] + 1

\* go_on is left as it is whatever the line is: a slip that takes the test of
\* the start keyword out of the reverse walk
GoOnKept(v, next_line, reverse, go_on) == {go_on}

\* the test of the bounds with both ends let in: a slip of the comparison
WithinBoundsInclusive(v, next_line) ==
    next_line <= view_size(v) /\ next_line >= 0

\* next_line < view.size() and next_line > 0
WithinBounds(v, next_line) == next_line < view_size(v) /\ next_line > 0

\* the values go_on may have after the test of a reverse walk.  view.line of
\* an offset before the buffer is outside of what the editor documents, the
\* test may come out either way there
GoOnAfter(v, next_line, reverse, go_on) ==
    IF ~reverse
    THEN {go_on}
    ELSE IF next_line < 0
    THEN {go_on, FALSE}
    ELSE IF is_start_keyword(Strip(view_substr(v, view_line(v, next_line))))
    THEN {FALSE}
    ELSE {go_on}

\* the frame after the first resumption reached the loop
WalkStarted(v, pos, reverse) ==
    [pc |-> "loop", reverse |-> reverse, current_line |-> view_line(v, pos),
     go_on |-> TRUE, yielded |-> <<>>]

\* the frame at the yield of the line of next_line
WalkYielded(w, v, next_line, g) ==
    [w EXCEPT !.current_line = view_line(v, next_line),
              !.go_on = g,
              !.yielded = Append(@, view_line(v, next_line))]

\* the frame after the generator ended
WalkEnded(w, g) == [w EXCEPT !.pc = "done", !.go_on = g]

----------------------------------------------------------------------------
(* The comma splitter applied to every string over SplitAlphabet of at     *)
(* most MaxStringLen characters                                            *)

SplitAlphabet == {"a", " ", ",", "(", ")", "]", "\"", "\\"}

SplitStrings == UNION {[1..n -> SplitAlphabet] : n \in 0..MaxStringLen}

NoBuffer == <<>>

InitSplit ==
    /\ op = "init"
    /\ string \in SplitStrings
    /\ out = <<>>
    /\ line = None
    /\ contents = <<>>
    /\ output = ReturnedNone
    /\ view = NoBuffer
    /\ position = 0
    /\ closing_string = <<>>
    /\ ret = None
    /\ multiline = <<>>
    /\ docstring_type = None
    /\ above = <<>>
    /\ walk = NoWalk

SplitByCommas ==
    /\ op = "init"
    /\ op' = "split_by_commas"
    /\ out' = split_by_commas(string)
    /\ UNCHANGED <<walk, string, line, contents, output, view, position, closing_string, ret,
                   multiline, docstring_type, above>>

NextSplit == SplitByCommas

SpecSplit == InitSplit /\ [][NextSplit]_vars

----------------------------------------------------------------------------
(* parse and the field parsers applied to a above line (or None) and a *)
(* block text: the line is a header put together from the parts below, the  *)
(* block text is at most MaxContentLines lines of BodyLines, each ended by  *)
(* "\n" as get_definition_contents ends them                                *)

HeaderLeads == {<<>>, <<" ">>}

HeaderHeads == {<<"d", "e", "f", " ", "f">>, <<"c", "l", "a", "s", "s", " ", "C">>, <<"a", "s", "y", "n", "c", " ", "d", "e", "f", " ", "f">>, <<"x">>}

HeaderParams ==
    {<<>>, <<"(", ")">>, <<"(", "s", "e", "l", "f", ")">>, <<"(", "a", ")">>, <<"(", "s", "e", "l", "f", ",", " ", "a", "=", "1", ")">>, <<"(", "*", "a", "r", "g", "s", ")">>, <<"(", "*", "a", "r", "g", "s", ":", " ", "s", "t", "r", ")">>,
     <<"(", "*", "*", "k", "w", ":", " ", "i", "n", "t", ")">>, <<"(", "B", ",", " ", "o", "b", "j", "e", "c", "t", ")">>, <<"(", "c", "b", ":", " ", "O", "p", "t", "i", "o", "n", "a", "l", "[", "i", "n", "t", "]", " ", "=", " ", "2", ",", " ", "i", "s", "X", ")">>}

HeaderLines ==
    {l \o h \o p \o <<":">> : l \in HeaderLeads, h \in HeaderHeads, p \in HeaderParams}

BodyLines ==
    {<<"r", "e", "t", "u", "r", "n", " ", "x">>, <<"r", "e", "t", "u", "r", "n">>, <<"y", "i", "e", "l", "d", " ", "1">>, <<"r", "a", "i", "s", "e", " ", "E">>, <<"r", "a", "i", "s", "e", " ", "F">>, <<"x", " ", "=", " ", "1">>,
     <<"d", "e", "f", " ", "f", "(", ")", " ", "-", ">", " ", "i", "n", "t", ":">>}

RECURSIVE JoinLines(_)
JoinLines(ls) ==
    IF ls = <<>> THEN <<>> ELSE Head(ls) \o <<"\n">> \o JoinLines(Tail(ls))

BlockTexts ==
    {JoinLines(ls) : ls \in UNION {[1..n -> BodyLines] : n \in 0..MaxContentLines}}

InitParse ==
    /\ op = "init"
    /\ string = <<>>
    /\ out = <<>>
    /\ line \in HeaderLines \cup {None}
    /\ contents \in BlockTexts
    /\ output = ReturnedNone
    /\ view = NoBuffer
    /\ position = 0
    /\ closing_string = <<>>
    /\ ret = None
    /\ multiline = <<>>
    /\ docstring_type = None
    /\ above = <<>>
    /\ walk = NoWalk

Parse ==
    /\ op = "init"
    /\ op' = "parse"
    /\ output' = parse(line, contents)
    /\ UNCHANGED <<walk, string, out, line, contents, view, position, closing_string, ret,
                   multiline, docstring_type, above>>

\* parse_arguments is handed the lines process_function hands it
ParseArguments ==
    /\ op = "init"
    /\ line # None
    /\ IsDefLine(line)
    /\ op' = "parse_arguments"
    /\ output' = parse_arguments(line)
    /\ UNCHANGED <<walk, string, out, line, contents, view, position, closing_string, ret,
                   multiline, docstring_type, above>>

ParseReturns ==
    /\ op = "init"
    /\ op' = "parse_returns"
    /\ output' = parse_returns(contents)
    /\ UNCHANGED <<walk, string, out, line, contents, view, position, closing_string, ret,
                   multiline, docstring_type, above>>

ParseRaises ==
    /\ op = "init"
    /\ op' = "parse_raises"
    /\ output' = parse_raises(contents)
    /\ UNCHANGED <<walk, string, out, line, contents, view, position, closing_string, ret,
                   multiline, docstring_type, above>>

NextParse == Parse \/ ParseArguments \/ ParseReturns \/ ParseRaises

SpecParse == InitParse /\ [][NextParse]_vars

----------------------------------------------------------------------------
(* One parser instance and the buffer of an editor: the buffer is opened   *)
(* with one line of BufferLines and grows line by line up to MaxLines, the *)
(* cursor moves to the begin or the end of a line, and after each of these *)
(* events one buffer operation may be called with the buffer and the       *)
(* cursor position.  read_next_line and the class methods get_definition   *)
(* and get_definition_contents leave the editor and the parser as they     *)
(* were, so the editor goes on from the state they were called in; it goes *)
(* on after is_docstring_closed, which may have set closing_string.        *)

BufferLines ==
    {<<>>, <<"\"", "\"", "\"">>, <<" ", "\"", "\"", "\"">>, <<"'", "'", "'", "x", "'", "'", "'">>, <<"d", "e", "f", " ", "f", "(", ")", ":">>, <<" ", "x">>, <<"#", "c">>, <<"@", "d">>}

\* the tab_size setting of the buffer
TabSizes == {1, 2}

NumLines(v) == Cardinality({i \in 1..Len(v.text) : v.text[i] = "\n"}) + 1

\* the offsets where a line begins or ends
CursorPositions(v) ==
    {0, Len(v.text)}
        \cup {i : i \in {j \in 1..Len(v.text) : v.text[j] = "\n"}}
        \cup {i - 1 : i \in {j \in 1..Len(v.text) : v.text[j] = "\n"}}

InitBuffer ==
    /\ op = "init"
    /\ string = <<>>
    /\ out = <<>>
    /\ line = None
    /\ contents = <<>>
    /\ output = ReturnedNone
    /\ view \in [text : BufferLines, tab_size : TabSizes]
    /\ position = 0
    /\ closing_string = InitClosingString
    /\ ret = None
    /\ multiline = NoCount
    /\ docstring_type = None
    /\ above = <<>>
    /\ walk = NoWalk

\* the user adds a line at the end of the buffer
NewLine ==
    /\ op \in {"init", "edit", "is_docstring_closed"}
    /\ NumLines(view) < MaxLines
    /\ \E l \in BufferLines : view' = [view EXCEPT !.text = @ \o <<"\n">> \o l]
    /\ op' = "edit"
    /\ ret' = None
    /\ multiline' = NoCount
    /\ docstring_type' = None
    /\ above' = <<>>
    /\ UNCHANGED <<walk, string, out, line, contents, output, position, closing_string>>

\* the user moves the cursor
MoveCursor ==
    /\ op \in {"init", "edit", "is_docstring_closed"}
    /\ \E pos \in CursorPositions(view) : position' = pos
    /\ op' = "edit"
    /\ ret' = None
    /\ multiline' = NoCount
    /\ docstring_type' = None
    /\ above' = <<>>
    /\ UNCHANGED <<walk, string, out, line, contents, output, view, closing_string>>

ReadNextLine ==
    /\ op \in {"init", "edit"}
    /\ \E reverse \in BOOLEAN :
          /\ op' = IF reverse THEN "read_next_line_reverse" ELSE "read_next_line"
          /\ ret' = read_next_line(view, position, reverse)
    /\ multiline' = NoCount
    /\ docstring_type' = None
    /\ above' = <<>>
    /\ UNCHANGED <<walk, string, out, line, contents, output, view, position, closing_string>>

GetDefinition ==
    /\ op \in {"init", "edit"}
    /\ op' = "get_definition"
    /\ ret' = get_definition(view, position)
    /\ multiline' = NoCount
    /\ docstring_type' = None
    /\ above' = <<>>
    /\ UNCHANGED <<walk, string, out, line, contents, output, view, position, closing_string>>

\* get_definition_contents with the argument m, found being what its call of
\* read_above returns
ContentsWith(m, found) ==
    /\ multiline' = m
    /\ docstring_type' = found.docstring_type
    /\ above' = found.definition
    /\ ret' = ContentsBelow(view, position, found)

\* get_definition_contents is called with the count that get_definition
\* returns for the position, or with None
GetDefinitionContents ==
    /\ op \in {"init", "edit"}
    /\ \E m \in {NoCount, get_definition(view, position).multiline} :
          ContentsWith(m, read_above(view, position, m))
    /\ op' = "get_definition_contents"
    /\ UNCHANGED <<walk, string, out, line, contents, output, view, position, closing_string>>

\* is_docstring_closed returned or raised: r is its outcome
ClosedWith(r) ==
    /\ ret' = IF r.raised THEN None ELSE r.ret
    /\ output' = IF r.raised THEN Raised(<<"E", "x", "c", "e", "p", "t", "i", "o", "n">>) ELSE ReturnedNone
    /\ closing_string' = r.closing_string

IsDocstringClosed ==
    /\ op \in {"init", "edit"}
    /\ op' = "is_docstring_closed"
    /\ ClosedWith(is_docstring_closed(view, position, closing_string))
    /\ multiline' = NoCount
    /\ docstring_type' = None
    /\ above' = <<>>
    /\ UNCHANGED <<walk, string, out, line, contents, view, position>>

NextBuffer ==
    \/ NewLine
    \/ MoveCursor
    \/ ReadNextLine
    \/ GetDefinition
    \/ GetDefinitionContents
    \/ IsDocstringClosed

SpecBuffer == InitBuffer /\ [][NextBuffer]_vars

----------------------------------------------------------------------------
(* One run of the generator read_next_line over a buffer of up to MaxLines *)
(* lines of WalkLines, from a position where a line begins or ends.  The   *)
(* consumer resumes the generator until it ends: each resumption runs the  *)
(* loop up to the next yield or to the end of the generator.               *)

WalkLines == {<<>>, <<"x">>, <<" ", "d", "e", "f", " ", "f">>, <<"c", "l", "a", "s", "s", " ", "C">>}

RECURSIVE WalkTextsOf(_)
WalkTextsOf(n) ==
    IF n = 1
    THEN WalkLines
    ELSE {t \o <<"\n">> \o l : t \in WalkTextsOf(n - 1), l \in WalkLines}

WalkTexts == UNION {WalkTextsOf(n) : n \in 1..MaxLines}

InitWalk ==
    /\ op = "init"
    /\ string = <<>>
    /\ out = <<>>
    /\ line = None
    /\ contents = <<>>
    /\ output = ReturnedNone
    /\ view \in [text : WalkTexts, tab_size : {1}]
    /\ position \in CursorPositions(view)
    /\ closing_string = InitClosingString
    /\ ret = None
    /\ multiline = NoCount
    /\ docstring_type = None
    /\ above = <<>>
    /\ walk = NoWalk

\* read_next_line(view, position, reverse) is called and resumed for the first
\* time: the statements before the loop
WalkStart ==
    /\ walk.pc = "idle"
    /\ \E reverse \in BOOLEAN : walk' = WalkStarted(view, position, reverse)
    /\ op' = "read_next_line"
    /\ UNCHANGED <<string, out, line, contents, output, view, position,
                   closing_string, ret, multiline, docstring_type, above>>

\* a turn of the loop that reaches the yield
WalkYield ==
    /\ walk.pc = "loop" /\ walk.go_on
    /\ WithinBounds(view, NextCandidate(walk.current_line, walk.reverse))
    /\ \E g \in GoOnAfter(view, NextCandidate(walk.current_line, walk.reverse),
                          walk.reverse, walk.go_on) :
          walk' = WalkYielded(walk, view,
                              NextCandidate(walk.current_line, walk.reverse), g)
    /\ UNCHANGED <<op, string, out, line, contents, output, view, position,
                   closing_string, ret, multiline, docstring_type, above>>

\* a turn of the loop that leaves it at the test of the bounds
WalkBreak ==
    /\ walk.pc = "loop" /\ walk.go_on
    /\ ~WithinBounds(view, NextCandidate(walk.current_line, walk.reverse))
    /\ \E g \in GoOnAfter(view, NextCandidate(walk.current_line, walk.reverse),
                          walk.reverse, walk.go_on) :
          walk' = WalkEnded(walk, g)
    /\ UNCHANGED <<op, string, out, line, contents, output, view, position,
                   closing_string, ret, multiline, docstring_type, above>>

\* the loop ends at its condition: go_on was cleared before the last yield
WalkStop ==
    /\ walk.pc = "loop" /\ ~walk.go_on
    /\ walk' = WalkEnded(walk, walk.go_on)
    /\ UNCHANGED <<op, string, out, line, contents, output, view, position,
                   closing_string, ret, multiline, docstring_type, above>>

NextWalk ==
    \/ WalkStart
    \/ WalkYield
    \/ WalkBreak
    \/ WalkStop

SpecWalk == InitWalk /\ [][NextWalk]_vars

\* the consumer resumes the generator as long as it has not ended
SpecWalkFair == SpecWalk /\ WF_vars(NextWalk)

----------------------------------------------------------------------------
(* C1 *)

Closer(c) == close_quotes[QuoteIndex(c)]

\* a span is open when the character at i is read / a span opens at j
RECURSIVE SpanOpenAt(_, _)
SpanOpensAt(s, j) == QuoteIndex(s[j]) > 0 /\ ~SpanOpenAt(s, j)
SpanOpenAt(s, i) ==
    \E j \in 1..(i - 1) :
        /\ SpanOpensAt(s, j)
        /\ \A k \in (j + 1)..(i - 1) : s[k] # Closer(s[j])

\* the commas read while no span is open
Cuts(s) == {i \in 1..Len(s) : s[i] = "," /\ ~SpanOpenAt(s, i)}

\* s without its leading and trailing whitespace, by position
Trimmed(s) ==
    LET I == {i \in 1..Len(s) : ~IsSpace(s[i])}
    IN  IF I = {} THEN <<>> ELSE SubSeq(s, Min(I), Max(I))

\* the pieces between consecutive cuts, in order
Pieces(s) ==
    LET B == {0} \cup Cuts(s) \cup {Len(s) + 1}
        Nth[k \in 1..Cardinality(B)] ==
            IF k = 1 THEN 0 ELSE Min({b \in B : b > Nth[k - 1]})
    IN  [k \in 1..(Cardinality(B) - 1) |-> SubSeq(s, Nth[k] + 1, Nth[k + 1] - 1)]

RECURSIVE TrimmedNonEmpty(_)
TrimmedNonEmpty(ps) ==
    IF ps = <<>> THEN <<>>
    ELSE IF Trimmed(Head(ps)) = <<>> THEN TrimmedNonEmpty(Tail(ps))
    ELSE <<Trimmed(Head(ps))>> \o TrimmedNonEmpty(Tail(ps))

\* C1: for a string without backslashes split_by_commas returns, in order, the
\* trimmed non-empty pieces between the commas read while no span is open, a span
\* opening at an opener read outside any span and closing at the first later
\* occurrence of that opener's own closer; the empty string gives the empty list
\* and no token is empty or starts or ends with whitespace.
C1_SplitPieces ==
    (op = "split_by_commas" /\ "\\" \notin Range(string)) =>
        /\ out = TrimmedNonEmpty(Pieces(string))
        /\ (string = <<>> => out = <<>>)
        /\ \A k \in 1..Len(out) :
              /\ out[k] # <<>>
              /\ ~IsSpace(out[k][1])
              /\ ~IsSpace(out[k][Len(out[k])])

\* a comma inside a span was kept and a later comma outside any span cut the string
C1_Witness ==
    /\ op = "split_by_commas"
    /\ "\\" \notin Range(string)
    /\ \E i, j \in 1..Len(string) :
          /\ i < j
          /\ string[i] = "," /\ SpanOpenAt(string, i)
          /\ string[j] = "," /\ ~SpanOpenAt(string, j)
    /\ Len(out) >= 1

----------------------------------------------------------------------------
(* C2, C8, C9, C10 *)

\* whether the first characters of l after its leading whitespace are w
StartsWith(l, w) ==
    LET I == {i \in 1..Len(l) : ~IsSpace(l[i])}
    IN  I # {} /\ Min(I) + Len(w) - 1 <= Len(l)
               /\ SubSeq(l, Min(I), Min(I) + Len(w) - 1) = w

\* C2: parse dispatches in a fixed order: for the line None the module result is
\* returned, also when it has no fields; otherwise for a line that starts with
\* "class " the class result is returned; otherwise for a line that starts with
\* "def " the function result is returned; for every other line, an "async def"
\* header too, the empty result is returned.
C2_Dispatch ==
    op = "parse" =>
        IF line = None
        THEN output.kind = "list" /\ output = process_module(line, contents)
        ELSE IF StartsWith(line, <<"c", "l", "a", "s", "s", " ">>)
        THEN output.kind = "list" /\ output = process_class(line, contents)
        ELSE IF StartsWith(line, <<"d", "e", "f", " ">>)
        THEN output.kind = "list" /\ output = process_function(line, contents)
        ELSE output = ReturnedEmptyDict

\* C8: parse never raises: for every line and block text it returns a
\* ParseResult, for headers with "*name" or "**name" parameters and for "def "
\* lines without a parenthesized parameter list as well.
C8_ParseNeverRaises ==
    op \in {"parse", "parse_arguments"} => output.kind # "raise"

\* the parameters of the header l that are left once the type hints are
\* stripped and a leading self or cls is removed
ParametersLeft(l) ==
    LET w == Min({i \in 1..Len(l) : l[i] = "("})
        e == Max({i \in 1..Len(l) : l[i] = ")"})
        args == split_by_commas(RemoveHints(SubSeq(l, w + 1, e - 1), 1))
    IN  IF args # <<>> /\ args[1] \in {<<"s", "e", "l", "f">>, <<"c", "l", "s">>} THEN Tail(args) ELSE args

HasParameterList(l) == "(" \in Range(l) /\ ")" \in Range(l)

\* C9: parse_arguments returns None whenever no parameter is left after the type
\* hints are stripped and a leading self or cls is removed, and the ParseResult of
\* the function then has no "arguments" category; it returns a record only when
\* at least one positional or keyword argument is reported.
C9_NoneWithoutParameters ==
    /\ (op = "parse_arguments" /\ output.kind = "dict") =>
           Len(output.arguments) + Len(output.keyword_arguments) >= 1
    /\ (op = "parse_arguments" /\ HasParameterList(line) /\ ParametersLeft(line) = <<>>) =>
           output.kind = "none"
    /\ (/\ op = "parse" /\ line # None /\ StartsWith(line, <<"d", "e", "f", " ">>)
        /\ HasParameterList(line) /\ ParametersLeft(line) = <<>>
        /\ output.kind = "list") =>
           \A i \in 1..Len(output.value) : output.value[i][1] # "arguments"

\* the physical lines of a block text
PhysicalLines(c) == SplitOn(c, "\n")

\* a line of the form "return <value>" or "yield <value>"
IsReturnLine(l) ==
    \E kw \in {<<"r", "e", "t", "u", "r", "n", " ">>, <<"y", "i", "e", "l", "d", " ">>} :
        /\ StartsWith(l, kw)
        /\ \E i \in 1..Len(l) :
              /\ ~IsSpace(l[i])
              /\ \A k \in 1..(i - 1) : IsSpace(l[k])
              /\ i + Len(kw) <= Len(l)
              /\ ~IsSpace(l[i + Len(kw)])

\* the name of a line of the form "raise <Name>", <<>> for any other line
RaisedName(l) ==
    IF ~StartsWith(l, <<"r", "a", "i", "s", "e", " ">>) THEN <<>>
    ELSE LET n == Min({i \in 1..Len(l) : ~IsSpace(l[i])}) + 6
             E == {e \in n..(Len(l) + 1) :
                      /\ \A k \in n..(e - 1) : IsWord(l[k])
                      /\ (e = Len(l) + 1 \/ ~IsWord(l[e]))}
         IN  SubSeq(l, n, Min(E) - 1)

NoStatementLine(c) ==
    \A i \in 1..Len(PhysicalLines(c)) :
        ~IsReturnLine(PhysicalLines(c)[i]) /\ RaisedName(PhysicalLines(c)[i]) = <<>>

\* the index of the first line of c that raises name; some line does
FirstRaise(c, name) ==
    Min({i \in 1..Len(PhysicalLines(c)) : RaisedName(PhysicalLines(c)[i]) = name})

\* C10: for a block text with no line of the form "return <value>",
\* "yield <value>" or "raise <Name>", parse_returns and parse_raises return None
\* and the ParseResult that parse produces for a def header has no "returns",
\* "yields" or "raises" entry; a "raises" entry that is present holds a
\* non-empty list of distinct names in the order they are first seen.
C10_NoStatementNoEntry ==
    /\ (op \in {"parse_returns", "parse_raises"} /\ NoStatementLine(contents)) =>
           output = ReturnedNone
    /\ (/\ op = "parse" /\ line # None /\ StartsWith(line, <<"d", "e", "f", " ">>)
        /\ NoStatementLine(contents) /\ output.kind = "list") =>
           \A i \in 1..Len(output.value) :
               output.value[i][1] \notin {"returns", "yields", "raises"}
    /\ (op = "parse" /\ output.kind = "list") =>
           \A i \in 1..Len(output.value) :
               output.value[i][1] = "raises" =>
                   LET names == output.value[i][2]
                   IN  /\ names # <<>>
                       /\ \A j \in 1..Len(names) :
                             /\ names[j] # <<>>
                             /\ \E k \in 1..Len(PhysicalLines(contents)) :
                                   RaisedName(PhysicalLines(contents)[k]) = names[j]
                       /\ \A j, k \in 1..Len(names) :
                             j < k => FirstRaise(contents, names[j])
                                          < FirstRaise(contents, names[k])

\* parse produced a ParseResult for a def header and a block text of lines none
\* of which is a statement line, and another with two distinct raised names
C10_Witness ==
    /\ op = "parse"
    /\ line # None /\ StartsWith(line, <<"d", "e", "f", " ">>)
    /\ output.kind = "list"
    /\ contents # <<>>
    /\ NoStatementLine(contents)
    /\ \E i \in 1..Len(PhysicalLines(contents)) :
          StartsWith(PhysicalLines(contents)[i], <<"r", "e", "t", "u", "r", "n">>)

----------------------------------------------------------------------------
(* C3 to C7: the buffer operations, stated on the physical lines of the    *)
(* buffer                                                                  *)

\* the physical lines of the buffer
LinesOf(v) == SplitOn(v.text, "\n")

\* the index of the physical line that holds the offset pos
LineIndex(v, pos) == Cardinality({i \in 1..pos : v.text[i] = "\n"}) + 1

\* the indentation of the line l, in units of the tab size
LevelOf(l, tab_size) == IndentColumn(l, tab_size, 0) \div tab_size

\* the indentations of the lines ls
LevelsOf(ls, tab_size) == [i \in 1..Len(ls) |-> LevelOf(ls[i], tab_size)]

IsBlankLine(l) == \A i \in 1..Len(l) : IsSpace(l[i])

IsCommentLine(l) ==
    \E i \in 1..Len(l) : l[i] = "#" /\ \A k \in 1..(i - 1) : IsSpace(l[k])

\* the line where the forward pass from line p stops: the first line below p
\* that is neither blank nor a comment and is indented less than p; the line
\* after the last when there is none
StopLine(ls, levels, p) ==
    Min({j \in (p + 1)..(Len(ls) + 1) :
            \/ j = Len(ls) + 1
            \/ /\ ~IsBlankLine(ls[j])
               /\ ~IsCommentLine(ls[j])
               /\ levels[j] < levels[p]})

\* the lines the claim has included for a block of the given type
IncludedLines(ls, levels, p, type) ==
    {j \in (p + 1)..(StopLine(ls, levels, p) - 1) :
        /\ ~IsBlankLine(ls[j])
        /\ ~IsCommentLine(ls[j])
        /\ (type = D_function \/ levels[j] = levels[p])}

\* the text of the lines of I from line j on, each as the block text holds it
RECURSIVE IncludedText(_, _, _)
IncludedText(ls, I, j) ==
    IF j > Len(ls) THEN <<>>
    ELSE (IF j \in I THEN ContentsAppend(RStrip(ls[j])) ELSE <<>>)
             \o IncludedText(ls, I, j + 1)

\* the block text the claim has for the position on line p of the lines ls
ForwardPassText(ls, levels, p) ==
    above \o IncludedText(ls, IncludedLines(ls, levels, p, docstring_type), 1)

\* C3: the forward pass of get_definition_contents skips blank and comment
\* lines, stops at the first other line indented less than the line of the
\* position and includes nothing from there on; before that line a block
\* classified as function has every line that is neither blank nor a comment
\* included, and any other block exactly the lines indented as the line of the
\* position, deeper lines being skipped without ending the scan.
C3_ForwardPass ==
    op = "get_definition_contents" =>
        ret = ForwardPassText(LinesOf(view), LevelsOf(LinesOf(view), view.tab_size),
                              LineIndex(view, position))

\* the case of a block that is no function, with a deeper line skipped right
\* below line p and the last line, indented as the position, included
SkipsDeeperLine(ls, levels, p) ==
    /\ p + 2 = Len(ls)
    /\ ~IsBlankLine(ls[p + 1])
    /\ ~IsCommentLine(ls[p + 1])
    /\ levels[p + 1] > levels[p]
    /\ IncludedLines(ls, levels, p, docstring_type) = {p + 2}
    /\ ret = above \o ls[p + 2] \o <<"\n">>

C3_Witness ==
    /\ op = "get_definition_contents"
    /\ docstring_type # D_function
    /\ SkipsDeeperLine(LinesOf(view), LevelsOf(LinesOf(view), view.tab_size),
                       LineIndex(view, position))

\* the lines a to b of the buffer, each stripped and followed by a blank
RECURSIVE MergedText(_, _, _)
MergedText(ls, a, b) ==
    IF a > b THEN <<>> ELSE Strip(ls[a]) \o <<" ">> \o MergedText(ls, a + 1, b)

\* the claim of C4 for the lines ls, the position on line p and the return r
DefinitionCount(ls, p, r) ==
    /\ (r.line = None) <=> (p = 1)
    /\ (r.multiline = NoCount) <=> (p = 1)
    /\ p # 1 =>
          /\ r.multiline[1] >= 1
          /\ r.multiline[1] < p
          /\ r.line = MergedText(ls, p - r.multiline[1], p - 1)

\* C4: get_definition returns (None, None) exactly when the position is on the
\* first line of the buffer; for every other position it returns a definition
\* string and a line count that is at least 1 and is the number of physical
\* lines merged into the string.
C4_DefinitionCount ==
    op = "get_definition" =>
        DefinitionCount(LinesOf(view), LineIndex(view, position), ret)

\* the claim of C5 for the lines ls, the position on line p and the return r
NoBlankLineSpanned(ls, p, r) ==
    /\ r.multiline[1] < p
    /\ r.line = MergedText(ls, p - r.multiline[1], p - 1)
    /\ \A i \in (p - r.multiline[1])..(p - 1) : ~IsBlankLine(ls[i])

\* C5: the definition string of get_definition never spans a blank line: the
\* lines merged into it and counted are contiguous lines, none of them blank,
\* that end right above the line of the position.
C5_NoBlankLineSpanned ==
    (op = "get_definition" /\ ret.line # None) =>
        NoBlankLineSpanned(LinesOf(view), LineIndex(view, position), ret)

\* a triple-quoted string opened and closed on the line l
IsOneLineString(l) ==
    /\ Len(Strip(l)) >= 6
    /\ \E q \in {Q3, A3} :
          /\ SubSeq(Strip(l), 1, 3) = q
          /\ SubSeq(Strip(l), Len(Strip(l)) - 2, Len(Strip(l))) = q

\* the line holds whitespace and one triple-quote marker, nothing else
IsMarkerOnly(l) == Strip(l) \in {Q3, A3}

\* some line below line p, indented as p, holds a marker only, and no line
\* between that is not blank is indented less than p
ClosingLineBelow(ls, levels, p) ==
    \E j \in (p + 1)..Len(ls) :
        /\ levels[j] = levels[p]
        /\ IsMarkerOnly(ls[j])
        /\ \A i \in (p + 1)..(j - 1) : ~IsBlankLine(ls[i]) => levels[i] >= levels[p]

\* the claim of C6 for the lines ls and the position on line p
ClosedIff(ls, levels, p) ==
    ~IsOneLineString(ls[p]) => (ret = TRUE <=> ClosingLineBelow(ls, levels, p))

\* C6: when the line of the position is no one-line triple-quoted string,
\* is_docstring_closed returns True if and only if the forward scan over the
\* lines that are not blank, lines deeper than the position ignored, meets a
\* line indented as the position that holds whitespace and a triple-quote
\* marker only, before a line indented less and before the buffer ends.
C6_ClosedIff ==
    op = "is_docstring_closed" =>
        ClosedIff(LinesOf(view), LevelsOf(LinesOf(view), view.tab_size),
                  LineIndex(view, position))

\* the styles of the markers that lines of ls from line p on begin with
StylesFrom(ls, p) ==
    {SubSeq(LStrip(ls[i]), 1, 3) :
        i \in {k \in p..Len(ls) :
                  /\ Len(LStrip(ls[k])) >= 3
                  /\ SubSeq(LStrip(ls[k]), 1, 3) \in {Q3, A3}}}

\* C7: after a call of is_docstring_closed the closing string is determined by
\* the buffer and the position of that call alone: it is the style of a marker
\* that the line of the position or a line below it begins with (the one-line
\* docstring, the closing line found, or the opening marker of the line), never
\* a value left by an earlier call or by the constructor.
C7_ClosingOverwritten ==
    op = "is_docstring_closed" =>
        closing_string \in StylesFrom(LinesOf(view), LineIndex(view, position))

----------------------------------------------------------------------------
(* C11, C12: the walks of read_next_line, stated on the physical lines     *)

\* the offset where line i of the lines ls begins
RECURSIVE LineBegin(_, _)
LineBegin(ls, i) ==
    IF i = 1 THEN 0 ELSE LineBegin(ls, i - 1) + Len(ls[i - 1]) + 1

\* the region of line i of the lines ls
LineRegion(ls, i) == <<LineBegin(ls, i), LineBegin(ls, i) + Len(ls[i])>>

\* the lines above line p that satisfy is_start_keyword after trimming
KeywordLinesAbove(ls, p) == {j \in 1..(p - 1) : is_start_keyword(Strip(ls[j]))}

\* a reverse walk from line p has yielded y: line after line upwards from the
\* line above p, and none above the nearest start keyword line, which is the
\* last line yielded once the walk has ended
ReverseWalkAsClaimed(ls, p, y, ended) ==
    /\ \A k \in 1..Len(y) : p - k >= 1 /\ y[k] = LineRegion(ls, p - k)
    /\ KeywordLinesAbove(ls, p) # {} =>
          /\ Len(y) <= p - Max(KeywordLinesAbove(ls, p))
          /\ ended => Len(y) = p - Max(KeywordLinesAbove(ls, p))

\* a forward walk from line p that has ended yielded every line below p, start
\* keyword line or not, but an empty last line of the buffer
ForwardWalkAsClaimed(ls, p, y, ended) ==
    /\ \A k \in 1..Len(y) : p + k <= Len(ls) /\ y[k] = LineRegion(ls, p + k)
    /\ ended =>
          \A j \in (p + 1)..Len(ls) :
              (j < Len(ls) \/ ls[j] # <<>>) => j - p \in 1..Len(y)

\* C11: a reverse walk yields the lines one by one upwards from the line
\* directly above the start line; when a line above the start is a start
\* keyword line after trimming, the nearest one is yielded and is the last
\* line yielded; a forward walk is not stopped by a start keyword line.
C11_ReverseStopsAtKeyword ==
    walk.pc \in {"loop", "done"} =>
        IF walk.reverse
        THEN ReverseWalkAsClaimed(LinesOf(view), LineIndex(view, position),
                                  walk.yielded, walk.pc = "done")
        ELSE ForwardWalkAsClaimed(LinesOf(view), LineIndex(view, position),
                                  walk.yielded, walk.pc = "done")

\* a reverse walk ended at an indented start keyword line below the first line
\* of the buffer
ReverseWitness(ls, p) ==
    /\ KeywordLinesAbove(ls, p) # {}
    /\ Max(KeywordLinesAbove(ls, p)) > 1
    /\ IsSpace(CharAt(ls[Max(KeywordLinesAbove(ls, p))], 1))

C11_Witness ==
    /\ walk.pc = "done"
    /\ walk.reverse
    /\ walk.yielded # <<>>
    /\ ReverseWitness(LinesOf(view), LineIndex(view, position))

\* the line the walk stands on: the line yielded last, the start line before
\* the first yield
StandsOn(ls, p, y) == IF y = <<>> THEN LineRegion(ls, p) ELSE y[Len(y)]

\* the next candidate offset of the walk
CandidateOffset(ls, p, y, reverse) ==
    IF reverse THEN StandsOn(ls, p, y)[1] - 1 ELSE StandsOn(ls, p, y)[2] + 1

\* the lines yielded are strictly monotonic in the buffer, none is yielded
\* twice and the start line is not among them
WalkOrdered(ls, p, y, reverse) ==
    /\ \A k \in 1..(Len(y) - 1) :
          IF reverse THEN y[k + 1][2] < y[k][1] ELSE y[k + 1][1] > y[k][2]
    /\ \A k \in 1..Len(y) : y[k] \in {LineRegion(ls, j) : j \in 1..Len(ls)}
    /\ \A k, m \in 1..Len(y) : y[k] = y[m] => k = m
    /\ \A k \in 1..Len(y) : y[k] # LineRegion(ls, p)

WalkInOrder ==
    walk.pc \in {"loop", "done"} =>
        WalkOrdered(LinesOf(view), LineIndex(view, position), walk.yielded,
                    walk.reverse)

\* a turn of the loop whose candidate offset is <= 0 or >= the size of the
\* buffer ends the walk and yields nothing
EndsAtBounds ==
    (/\ walk.pc = "loop"
     /\ walk.go_on
     /\ \/ CandidateOffset(LinesOf(view), LineIndex(view, position),
                           walk.yielded, walk.reverse) <= 0
        \/ CandidateOffset(LinesOf(view), LineIndex(view, position),
                           walk.yielded, walk.reverse) >= Len(view.text))
        => walk'.pc = "done" /\ walk'.yielded = walk.yielded

\* C12: every walk of read_next_line, forward or reverse, ends; the lines it
\* yields are strictly monotonic in buffer position, the start line is never
\* yielded, no line is yielded twice, and the walk ends without a yield as
\* soon as the next candidate offset is <= 0 or >= the size of the buffer.
C12_WalkTerminates ==
    /\ []WalkInOrder
    /\ [][EndsAtBounds]_vars
    /\ <>(walk.pc = "done")

\* a forward and a reverse walk of two yields each have ended
C12_Witness ==
    /\ walk.pc = "done"
    /\ Len(walk.yielded) = 2
    /\ LineIndex(view, position) = IF walk.reverse THEN 3 ELSE 1

----------------------------------------------------------------------------
(* C13: the decorators above a function header                             *)

\* line p stands directly below a def header of one physical line, indented one
\* level less than p, and a decorator line of the indentation of the header
\* stands directly above the header
DecoratedHeaderAbove(ls, levels, p) ==
    /\ p >= 3
    /\ IsDefHeader(Strip(ls[p - 1]))
    /\ levels[p - 1] = levels[p] - 1
    /\ IsDecorator(Strip(ls[p - 2]))
    /\ levels[p - 2] = levels[p - 1]

\* the decorator line and the header as the backward pass is claimed to hold
\* them: stripped, each ended by a newline, in buffer order
DecoratedHeaderText(ls, p) ==
    Strip(ls[p - 2]) \o <<"\n">> \o Strip(ls[p - 1]) \o <<"\n">>

\* s ends with t
EndsWithText(s, t) ==
    Len(t) <= Len(s) /\ SubSeq(s, Len(s) - Len(t) + 1, Len(s)) = t

\* C13: for a def header of one physical line with a decorator line directly
\* above it at its indentation, read_above with line count 1 goes on past the
\* header over the decorator line, so what it returns ends with the decorator
\* line and the header, and the block text of get_definition_contents begins
\* with that text.
C13_DecoratorsAbove ==
    (/\ op = "get_definition_contents"
     /\ multiline = <<1>>
     /\ DecoratedHeaderAbove(LinesOf(view), LevelsOf(LinesOf(view), view.tab_size),
                             LineIndex(view, position)))
        => /\ EndsWithText(above, DecoratedHeaderText(LinesOf(view),
                                                      LineIndex(view, position)))
           /\ StartsWith(ret, above)

----------------------------------------------------------------------------
(* C14: closing_string and the exception of set_closing_string             *)

\* the matches is_docstring_closed can hand to set_closing_string for the line
\* l: of the one-line pattern on the line, and of the marker pattern on the
\* line as it is or stripped on its right
MatchesOf(l) == {OneLineMatch(l), MarkerMatch(l), MarkerMatch(RStrip(l))} \ {None}

\* every match begins, after trimming, with one of the two markers
MatchesMarked(ls) ==
    \A i \in 1..Len(ls) : \A m \in MatchesOf(ls[i]) :
        HasPrefixAt(Strip(m), 1, Q3) \/ HasPrefixAt(Strip(m), 1, A3)

\* C14: in every state of a parser instance closing_string is """ or ''', no
\* call of is_docstring_closed ends with the exception of set_closing_string,
\* and every match it can hand to set_closing_string for a line of the buffer
\* it is called on begins, after trimming, with one of the two markers.
C14_ClosingStringStyle ==
    /\ closing_string \in {Q3, A3}
    /\ op = "is_docstring_closed" =>
          /\ output.kind # "raise"
          /\ MatchesMarked(LinesOf(view))

\* is_docstring_closed found the closing line below an indented docstring line:
\* the match it handed over begins with whitespace
C14_Witness ==
    /\ op = "is_docstring_closed"
    /\ ret = TRUE
    /\ closing_string = Q3
    /\ LevelOf(LinesOf(view)[LineIndex(view, position)], view.tab_size) > 0

====
